---------------------------- MODULE Spec2Model ----------------------------
(***************************************************************************)
(* Progressive catalog loader of celestialengine: fetchStars and           *)
(* getRequiredStarsFiles (fetcher module, src/src/properties.ts 392-590),  *)
(* driven by a caller that issues one call at a time.                      *)
(*                                                                         *)
(* Magnitudes are integers.  A value of type `number | null` is a tuple:   *)
(* <<>> is null and <<n>> is the number n.  An async call is cut at its    *)
(* awaits: one action runs the code from one await (or the call) to the    *)
(* next await, return or throw.                                            *)
(***************************************************************************)
EXTENDS Integers, Sequences, FiniteSets, TLC

(* ------------------------------ bounds -------------------------------- *)
\* requested magnitudes range over -MaxNegVmag .. MaxVmag
MaxNegVmag == 2
MaxVmag == 15
\* retryCount arguments range over 0 .. MaxRetry
MaxRetry == 2
MaxClock == 1
MaxAzTurns == 1
MaxAltTurns == 1
MaxZoomSteps == 1
MaxDepth == 3
MaxHitStars == 3
MaxBright == 3
MaxFaint == 8
MaxPathLen == 3
MaxParam == 4
MaxGastTurns == 3
MaxLongTurns == 4
MaxPos == 2
MaxFingers == 3
MaxPinch == 2

\* the provider is given magnitudes that are multiples of VmagStride
VmagStride == 5

Vmags == (0 - MaxNegVmag)..MaxVmag
\* the values props.vMag takes
PropVmags == {v \in Vmags : v % VmagStride = 0}
RetryCounts == 0..MaxRetry
\* the errors a failing fetch can raise
Errors == {"e1", "e2"}
NoError == "none"

(* ------------------------ number | null values ------------------------ *)
NULL == <<>>
Num(n) == <<n>>
Val(x) == x[1]
\* JavaScript truthiness of a `number | null`: null and 0 are falsy
Truthy(x) == x # NULL /\ Val(x) # 0

(* --------------------------- remote documents ------------------------- *)
SrcA == "a/meta.json"
SrcB == "b/meta.json"
Sources == {SrcA, SrcB}

\* the metadata documents served at each source (RawStarMetadata.files):
\* SrcA serves the bands of the repository's test, SrcB serves bands listed
\* out of order with a boundary at magnitude 0
RawFiles(url) ==
  IF url = SrcA
  THEN << <<0 - 1, 3, "first">>, <<3, 9, "second">>, <<9, 15, "3rd">> >>
  ELSE << <<0, 4, "c">>, <<0 - 2, 0 - 1, "a">>, <<0 - 1, 0, "b">> >>

\* the star numbers (RawStar.n) listed by each band file
RawStarNumbers(source, file) ==
  IF source = SrcA
  THEN CASE file = "first" -> {1}
         [] file = "second" -> {1, 2}
         [] OTHER -> {3}
  ELSE CASE file = "a" -> {1}
         [] file = "b" -> {4}
         [] OTHER -> {5}

parseMetadata(url) == [source |-> url, files |-> RawFiles(url)]

fetchMetadata(url) == parseMetadata(url)

\* a parsed star keeps its number and, standing for its coordinates and
\* epoch, the document it was parsed from
parseStar(n, source, file) == [id |-> n, source |-> source, file |-> file]

fetchStar(metadata, file) ==
  [n \in RawStarNumbers(metadata.source, file) |->
     parseStar(n, metadata.source, file)]

(* ------------------------------ fetcher ------------------------------- *)
initialState == [step |-> [value |-> "INIT"], stars |-> <<>>, loadedVmag |-> NULL]

\* { ...a, ...b }
Spread(a, b) ==
  [k \in DOMAIN a \cup DOMAIN b |-> IF k \in DOMAIN b THEN b[k] ELSE a[k]]

\* the `already resolved` test at the head of fetchStars
AlreadyResolved(st, v) == Truthy(st.loadedVmag) /\ Val(st.loadedVmag) > v

\* a re-initialization test that also fires on a state not bound to any source
NeedReinit_Unbound(st, metadataSource) ==
  st.step.value # "INIT"
    /\ (st.step.meta = NULL \/ st.step.meta.source # metadataSource)

\* a re-initialization test that never fires
NeedReinit_Never(st, metadataSource) == FALSE

\* the `need to be re-initialized` test
NeedReinit(st, metadataSource) ==
  st.step.value = "OK" /\ st.step.meta.source # metadataSource

\* the filter of getRequiredStarsFiles
Required(f, loadedVmag, requiredVmag) ==
  requiredVmag >= f[1] /\ (~Truthy(loadedVmag) \/ f[2] >= Val(loadedVmag))

RECURSIVE FilterSeq(_, _, _)
FilterSeq(fs, loadedVmag, requiredVmag) ==
  IF fs = <<>> THEN <<>>
  ELSE LET rest == FilterSeq(Tail(fs), loadedVmag, requiredVmag)
       IN  IF Required(Head(fs), loadedVmag, requiredVmag)
           THEN <<Head(fs)>> \o rest ELSE rest

\* insert f into the sorted sequence s after every element whose upper
\* bound is not greater (Array.prototype.sort is stable)
RECURSIVE InsertByHigher(_, _)
InsertByHigher(f, s) ==
  IF s = <<>> THEN <<f>>
  ELSE IF Head(s)[2] <= f[2] THEN <<Head(s)>> \o InsertByHigher(f, Tail(s))
       ELSE <<f>> \o s

RECURSIVE SortByHigher(_)
SortByHigher(fs) ==
  IF fs = <<>> THEN <<>>
  ELSE InsertByHigher(fs[Len(fs)], SortByHigher(SubSeq(fs, 1, Len(fs) - 1)))

getRequiredStarsFiles(metadata, loadedVmag, requiredVmag) ==
  LET sorted == SortByHigher(FilterSeq(metadata.files, loadedVmag, requiredVmag))
  IN  [i \in 1..Len(sorted) |->
         [satisfyingVmag |-> sorted[i][2], file |-> sorted[i][3]]]

\* a merge that keeps only the fetched band
MergeStars_FetchedOnly(old, new) == new

\* merge star dicts: { ...old, ...new }
MergeStars(old, new) == Spread(old, new)

\* the state after a fetched band has been merged
Merged(st, entry, stars) ==
  [st EXCEPT !.loadedVmag = Num(entry.satisfyingVmag),
             !.stars = MergeStars(st.stars, stars)]

\* the state after the metadata has been fetched
WithMetadata(st, meta) == [st EXCEPT !.step = [value |-> "OK", meta |-> meta]]

\* a FAIL state built on the initial state
FailState_FromInitial(st, e) ==
  [initialState EXCEPT !.step =
     Spread(st.step, [value |-> "FAIL", meta |-> NULL, error |-> e])]

\* update state with FAIL state
FailState(st, e) ==
  [st EXCEPT !.step =
     Spread(st.step, [value |-> "FAIL", meta |-> NULL, error |-> e])]

\* failureCount >= retryCount
RetryExhausted_OffByOne(count, retry) == count >= retry

\* failureCount > retryCount
RetryExhausted(count, retry) == count > retry

\* a catch block that counts each failure from zero
catchBlock_CountAfresh(st, count, retry, e) ==
  LET n == 1
  IN  IF RetryExhausted(n, retry)
      THEN [state |-> FailState(st, e), failureCount |-> n,
            yielded |-> <<FailState(st, e)>>, thrown |-> e]
      ELSE [state |-> st, failureCount |-> n,
            yielded |-> <<>>, thrown |-> NoError]

\* a catch block that also notifies when it goes round again
catchBlock_YieldOnRetry(st, count, retry, e) ==
  LET n == count + 1
  IN  IF RetryExhausted(n, retry)
      THEN [state |-> FailState(st, e), failureCount |-> n,
            yielded |-> <<FailState(st, e)>>, thrown |-> e]
      ELSE [state |-> st, failureCount |-> n,
            yielded |-> <<st>>, thrown |-> NoError]

\* the catch block: count the failure, then give up or go round again
catchBlock(st, count, retry, e) ==
  LET n == count + 1
  IN  IF RetryExhausted(n, retry)
      THEN [state |-> FailState(st, e), failureCount |-> n,
            yielded |-> <<FailState(st, e)>>, thrown |-> e]
      ELSE [state |-> st, failureCount |-> n,
            yielded |-> <<>>, thrown |-> NoError]

\* one pass of the while loop, from its head to the first await or return
LoopPass(st, metadataSource, v) ==
  LET s1 == IF NeedReinit(st, metadataSource) THEN initialState ELSE st
  IN  CASE s1.step.value = "INIT" ->
             [pc |-> "meta", state |-> s1, entries |-> <<>>, idx |-> 0,
              fetching |-> [kind |-> "meta", url |-> metadataSource]]
        [] s1.step.value = "OK" ->
             LET es == getRequiredStarsFiles(s1.step.meta, s1.loadedVmag, v)
             IN  IF es = <<>>
                 THEN [pc |-> "resolved", state |-> s1, entries |-> es,
                       idx |-> 0, fetching |-> NULL]
                 ELSE [pc |-> "star", state |-> s1, entries |-> es, idx |-> 1,
                       fetching |-> [kind |-> "star", metadata |-> s1.step.meta,
                                     file |-> es[1].file]]
        [] OTHER ->
             [pc |-> "resolved", state |-> s1, entries |-> <<>>, idx |-> 0,
              fetching |-> NULL]

(* ------------------------------- state -------------------------------- *)
VARIABLES
  held,          \* the StarFetcherState the caller holds and passes to a call
  pc,            \* "idle", "meta", "star" (awaiting a fetch), "resolved", "rejected"
  state,         \* the local variable `state` of fetchStars
  metadataSource, vmag, retryCount,   \* the arguments of the call
  failureCount,  \* the local variable failureCount
  entries, idx,  \* the entries of the for loop and the position in them
  fetching,      \* the request the call awaits
  thrown,        \* the error the call rejected with
  attempts,      \* fetches started by this call
  succeeded,     \* fetches of this call that succeeded
  notified,      \* invocations of yieldCallback by this call
  last,          \* the state last passed to yieldCallback or returned
  lastError,     \* the error of the last failed fetch of this call
  fixedChain     \* every call so far asked for the same source and started
                 \* from the state last notified or returned

loaderVars == <<held, pc, state, metadataSource, vmag, retryCount,
                failureCount, entries, idx, fetching, thrown, attempts,
                succeeded, notified, last, lastError, fixedChain>>

(* the fetcher effect of CelestialEngineProvider: calls that overlap *)
VARIABLES
  fetchState,    \* the provider's fetchState
  propsStars,    \* props.stars
  effectVmag,    \* props.vMag at the last run of the effect, NULL before mount
  calls,         \* the fetchStars calls the effect has in flight
  everPublished  \* the star numbers props.stars has ever held

effectVars == <<fetchState, propsStars, effectVmag, calls, everPublished>>

\* the two calls that can be in flight together
Slots == {1, 2}

\* no call
NoCall ==
  [pc |-> "free", state |-> initialState, start |-> initialState, vmag |-> 0,
   failureCount |-> 0, entries |-> <<>>, idx |-> 0, fetching |-> NULL,
   own |-> {}]

EffectInit ==
  /\ fetchState = initialState
  /\ propsStars = <<>>
  /\ effectVmag = NULL
  /\ calls = [c \in Slots |-> NoCall]
  /\ everPublished = {}

(* the Observer component: the effect that resolves the observation target *)
VARIABLES
  cameraRef,     \* cameraRef.current is set: the camera is mounted
  obsStars,      \* props.stars, a dictionary from star number to star
  obsTarget,     \* props.target
  obsClock,      \* props.universeClock, in years
  rotParams,     \* rotParams.current: <<>> is null, <<q>> a quaternion
  fovParams,     \* fovParams.current
  zoomParams,    \* zoomParams.current
  camera,        \* quaternion, fov and zoom of the camera, <<>> if never set
  obsThrown,     \* the effect threw out of the last render
  obsLast        \* the last thing that happened to the component

observerVars == <<cameraRef, obsStars, obsTarget, obsClock, rotParams,
                  fovParams, zoomParams, camera, obsThrown, obsLast>>

AzAlt(az, alt) == [kind |-> "azalt", azimuth |-> az, altitude |-> alt]
RaDec(ra, dec) == [kind |-> "radec", ra |-> ra, dec |-> dec]
StarRef(n) == [kind |-> "star", starNumber |-> n]

ObserverInit ==
  /\ cameraRef = FALSE
  /\ obsStars = <<>>
  /\ obsTarget = AzAlt(0, 45)
  /\ obsClock = 0
  /\ rotParams = NULL
  /\ fovParams = NULL
  /\ zoomParams = NULL
  /\ camera = [quaternion |-> NULL, fov |-> NULL, zoom |-> NULL]
  /\ obsThrown = FALSE
  /\ obsLast = "none"

(* the handlers of CelestialEngineProvider *)
VARIABLES
  props,         \* the provider's props: sight, zoom, target and options
  provLast       \* what the last handled event did

providerVars == <<props, provLast>>

NoEvent == [kind |-> "none", preview |-> "none", updated |-> FALSE,
            over |-> FALSE]

ProviderInit ==
  /\ props = [azimuth |-> 0, altitude |-> 45, zoom |-> 1,
              targetStarNumber |-> NULL, maxZoom |-> NULL,
              controllable |-> TRUE, selectable |-> TRUE,
              previewOnSelect |-> FALSE, previewOnMove |-> FALSE,
              previewOnZoom |-> FALSE]
  /\ provLast = NoEvent

(* useCelestialEngine, called under nested context providers *)
VARIABLES
  providers,     \* values of the enclosing providers, the nearest one last
  hookResult     \* outcome of the last call of the hook

hookVars == <<providers, hookResult>>

HookInit ==
  /\ providers = <<>>
  /\ hookResult = [called |-> FALSE, thrown |-> FALSE, value |-> NULL]

(* hit testing of the Interactor: createClickEvent and calcDistanceLine *)
VARIABLES
  hitStars,      \* props.stars of the Interactor: star number -> star
  hitClick,      \* arguments of the last createClickEvent, <<>> if none
  hitEvent,      \* the select event it returned
  lineCall       \* last call of calcDistanceLine alone, with its result

hitVars == <<hitStars, hitClick, hitEvent, lineCall>>

HitInit ==
  /\ hitStars = <<>>
  /\ hitClick = NULL
  /\ hitEvent = NULL
  /\ lineCall = NULL

(* getStarSize, called for stars of several magnitudes *)
VARIABLES
  sizes          \* the sizes computed so far, by the vMag of the star

sizeVars == <<sizes>>

SizeInit == sizes = <<>>

(* the address fetchStar asks a band file from *)
VARIABLES
  bandFetch      \* the last band request: source, file and address, or <<>>

pathVars == <<bandFetch>>

PathInit == bandFetch = NULL

(* setAnimationRefs called on a pair of references *)
VARIABLES
  refObj,        \* objRef.current: <<>> or the object
  refParam,      \* paramRef.current: <<>> or the value
  refLast        \* the last call: objRef and paramRef before it, the value,
                 \* and the calls of the setter it made; or <<>>

refVars == <<refObj, refParam, refLast>>

RefInit == refObj = NULL /\ refParam = NULL /\ refLast = NULL

(* orientation of the azimuthal grid and of the direction labels *)
VARIABLES
  horizon        \* the quaternions copied in one frame, or <<>>

gridVars == <<horizon>>

GridInit == horizon = NULL

(* the Interactor: mouse and touch input on the canvas *)
VARIABLES
  buttons,       \* the mouse buttons held down
  fingers,       \* the number of fingers on the canvas
  lastPos,       \* lastPos.current: <<>> or the point
  dragging,      \* dragging.current
  pinchDist,     \* pinchDist.current: <<>> or the distance
  inputLast,     \* the last event handled and the event it emitted
  downSeen,      \* a mousedown with a reactive button since the last mouseup
  moveSeen,      \* a mousemove with a reactive button since that mousedown
  emittedSince   \* a move or zoom event emitted since the press or the
                 \* gesture began

inputVars == <<buttons, fingers, lastPos, dragging, pinchDist, inputLast,
               downSeen, moveSeen, emittedSince>>

InputInit ==
  /\ buttons = {}
  /\ fingers = 0
  /\ lastPos = NULL
  /\ dragging = FALSE
  /\ pinchDist = NULL
  /\ inputLast = [event |-> "none", emitted |-> "none"]
  /\ downSeen = FALSE
  /\ moveSeen = FALSE
  /\ emittedSince = FALSE

vars == <<loaderVars, effectVars, observerVars, providerVars, hookVars,
         hitVars,
         sizeVars,
         pathVars,
         refVars,
         gridVars,
         inputVars>>

\* an action of the loader leaves the rest alone
LoaderFrame == UNCHANGED <<effectVars, observerVars, providerVars, hookVars, hitVars,
    sizeVars,
    pathVars,
    refVars,
    gridVars,
    inputVars>>

args == <<metadataSource, vmag, retryCount>>

LoaderInit ==
  /\ held = initialState
  /\ pc = "idle"
  /\ state = initialState
  /\ metadataSource = SrcA
  /\ vmag = 0
  /\ retryCount = 0
  /\ failureCount = 0
  /\ entries = <<>>
  /\ idx = 0
  /\ fetching = NULL
  /\ thrown = NoError
  /\ attempts = 0
  /\ succeeded = 0
  /\ notified = 0
  /\ last = initialState
  /\ lastError = NoError
  /\ fixedChain = TRUE

Init == LoaderInit /\ EffectInit /\ ObserverInit /\ ProviderInit
          /\ HookInit /\ HitInit /\ SizeInit /\ PathInit /\ RefInit /\ GridInit /\ InputInit

\* continue the call with the outcome r of a loop pass
Continue(r) ==
  /\ pc' = r.pc
  /\ state' = r.state
  /\ entries' = r.entries
  /\ idx' = r.idx
  /\ fetching' = r.fetching
  /\ attempts' = attempts + (IF r.pc \in {"meta", "star"} THEN 1 ELSE 0)

\* the caller starts fetchStars(held, s, v, yieldCallback, r)
Call(s, v, r) ==
  /\ pc = "idle"
  /\ metadataSource' = s /\ vmag' = v /\ retryCount' = r
  /\ failureCount' = 0
  /\ thrown' = NoError /\ lastError' = NoError
  /\ succeeded' = 0 /\ notified' = 0
  /\ fixedChain' = (fixedChain /\ held = last
                      /\ (s = metadataSource \/ held = initialState))
  /\ IF AlreadyResolved(held, v)
     THEN /\ pc' = "resolved" /\ state' = held
          /\ entries' = <<>> /\ idx' = 0 /\ fetching' = NULL
          /\ attempts' = 0
          /\ last' = held
     ELSE LET p == LoopPass(held, s, v)
          IN  /\ pc' = p.pc /\ state' = p.state
              /\ entries' = p.entries /\ idx' = p.idx /\ fetching' = p.fetching
              /\ attempts' = (IF p.pc \in {"meta", "star"} THEN 1 ELSE 0)
              /\ last' = (IF p.pc = "resolved" THEN p.state ELSE last)
  /\ UNCHANGED held
  /\ LoaderFrame

\* the awaited fetchMetadata resolves
MetadataFetched ==
  /\ pc = "meta"
  /\ LET s1 == WithMetadata(state, fetchMetadata(fetching.url))
         p == LoopPass(s1, metadataSource, vmag)
     IN  /\ Continue(p)
         /\ notified' = notified + 1
         /\ last' = (IF p.pc = "resolved" THEN p.state ELSE s1)
  /\ succeeded' = succeeded + 1
  /\ UNCHANGED <<held, args, failureCount, thrown, lastError, fixedChain>>
  /\ LoaderFrame

\* the awaited fetchStar resolves
StarFetched ==
  /\ pc = "star"
  /\ LET s1 == Merged(state, entries[idx], fetchStar(fetching.metadata, fetching.file))
     IN  /\ state' = s1
         /\ notified' = notified + 1
         /\ last' = s1
         /\ IF idx < Len(entries)
            THEN /\ pc' = "star" /\ idx' = idx + 1
                 /\ fetching' = [fetching EXCEPT !.file = entries[idx + 1].file]
                 /\ attempts' = attempts + 1
            ELSE /\ pc' = "resolved" /\ idx' = idx
                 /\ fetching' = NULL
                 /\ attempts' = attempts
  /\ succeeded' = succeeded + 1
  /\ UNCHANGED <<held, args, failureCount, entries, thrown, lastError, fixedChain>>
  /\ LoaderFrame

\* the awaited fetch rejects with error e (transport, status or parse error)
FetchFailed(e) ==
  /\ pc \in {"meta", "star"}
  /\ LET c == catchBlock(state, failureCount, retryCount, e)
     IN  /\ failureCount' = c.failureCount
         /\ thrown' = c.thrown
         /\ notified' = notified + Len(c.yielded)
         /\ IF c.thrown # NoError
            THEN /\ pc' = "rejected" /\ state' = c.state
                 /\ fetching' = NULL
                 /\ last' = c.yielded[Len(c.yielded)]
                 /\ UNCHANGED <<entries, idx, attempts>>
            ELSE LET p == LoopPass(c.state, metadataSource, vmag)
                 IN  /\ Continue(p)
                     /\ last' = (IF p.pc = "resolved" THEN p.state
                                 ELSE IF c.yielded # <<>> THEN c.yielded[1]
                                 ELSE last)
  /\ lastError' = e
  /\ UNCHANGED <<held, args, succeeded, fixedChain>>
  /\ LoaderFrame

\* the call is over: its locals are gone; the source and the magnitude it
\* was made for are remembered for the call that follows
Finished ==
  /\ pc' = "idle"
  /\ state' = initialState
  /\ metadataSource' = metadataSource /\ vmag' = vmag /\ retryCount' = 0
  /\ failureCount' = 0
  /\ entries' = <<>> /\ idx' = 0 /\ fetching' = NULL
  /\ thrown' = NoError /\ lastError' = NoError
  /\ attempts' = 0 /\ succeeded' = 0 /\ notified' = 0
  /\ UNCHANGED <<last, fixedChain>>
  /\ LoaderFrame

\* the caller takes the state the call resolved with
AdoptResolved ==
  /\ pc = "resolved"
  /\ held' = state
  /\ Finished

\* after a rejection the caller takes the state its callback received last
AdoptNotified ==
  /\ pc = "rejected"
  /\ held' = last
  /\ Finished

\* after a rejection the caller keeps the state it passed to the call
KeepOnReject ==
  /\ pc = "rejected"
  /\ UNCHANGED held
  /\ Finished

Next ==
  \/ \E s \in Sources, v \in Vmags, r \in RetryCounts : Call(s, v, r)
  \/ MetadataFetched
  \/ StarFetched
  \/ \E e \in Errors : FetchFailed(e)
  \/ AdoptResolved
  \/ AdoptNotified
  \/ KeepOnReject

Spec == Init /\ [][Next]_vars

(* ------------------------------ properties ---------------------------- *)
\* the call in progress, or finished and not yet taken by the caller, was
\* started with a state whose loadedVmag is a number greater than vmag
Covered == held.loadedVmag # NULL /\ Val(held.loadedVmag) > vmag

\* the call made no fetch, notified nothing and resolved with its argument
NoOp == pc = "resolved" /\ state = held /\ attempts = 0 /\ notified = 0

\* C1: a call whose state has loadedVmag strictly greater than the requested
\* vmag returns that state unchanged, with no fetch and no notification,
\* whatever the step and the requested source.
C1_CoveredIsNoOp == (pc # "idle" /\ Covered) => NoOp

\* the band selection as the specification words it: null, not falsy
ClaimedRequired(f, loadedVmag, requiredVmag) ==
  requiredVmag >= f[1] /\ (loadedVmag = NULL \/ f[2] >= Val(loadedVmag))

ClaimedBands(metadata, loadedVmag, requiredVmag) ==
  {f \in {metadata.files[i] : i \in 1..Len(metadata.files)} :
     ClaimedRequired(f, loadedVmag, requiredVmag)}

\* C2: in step Ok the bands to fetch are exactly the bands with
\* requiredVmag >= lower and (loadedVmag null or upper >= loadedVmag), each
\* once, in ascending order of upper, fetched one at a time; after each fetch
\* loadedVmag is that band's upper.
C2_FetchedBands ==
  pc = "star" =>
    /\ fetching.file = entries[idx].file
    /\ \A i, j \in 1..Len(entries) :
         i < j => entries[i].satisfyingVmag <= entries[j].satisfyingVmag
    /\ idx = 1 =>
         LET bands == ClaimedBands(state.step.meta, state.loadedVmag, vmag)
         IN  /\ {<<entries[i].satisfyingVmag, entries[i].file>> :
                   i \in 1..Len(entries)} = {<<f[2], f[3]>> : f \in bands}
             /\ Len(entries) = Cardinality(bands)
    /\ idx > 1 => state.loadedVmag = Num(entries[idx - 1].satisfyingVmag)

\* C3: with the bands (-1,3) (3,9) (9,15) and loadedVmag = 3 the selection
\* is the (3,9) band alone for requiredVmag = 8 and the (3,9) and (9,15)
\* bands for requiredVmag = 14: the (-1,3) band is not fetched again.
C3_CoveredBandSkipped ==
  (pc = "star" /\ idx = 1 /\ state.step.meta.files = RawFiles(SrcA)
     /\ state.loadedVmag = Num(3)) =>
    /\ vmag = 8 => entries = <<[satisfyingVmag |-> 9, file |-> "second"]>>
    /\ vmag = 14 => entries = <<[satisfyingVmag |-> 9, file |-> "second"],
                                [satisfyingVmag |-> 15, file |-> "3rd"]>>

\* C4: a call all of whose fetches fail makes exactly retryCount + 1
\* attempts, then is in step Fail and rejects with the error of the last
\* attempt, which is the error stored in the Fail step.
C4_AllFetchesFail ==
  (succeeded = 0 /\ attempts > 0) =>
    /\ attempts <= retryCount + 1
    /\ pc # "resolved"
    /\ pc = "rejected" =>
         /\ attempts = retryCount + 1
         /\ state.step.value = "FAIL"
         /\ state.step.error = thrown
         /\ thrown = lastError

C4_Witness ==
  pc = "rejected" /\ succeeded = 0 /\ retryCount = MaxRetry
    /\ attempts = MaxRetry + 1 /\ thrown = "e2"

\* C5: a call on a state whose step is Fail returns that state unchanged,
\* with no fetch and no notification, for every source and every vmag.
C5_FailAbsorbing ==
  (pc # "idle" /\ held.step.value = "FAIL") => (NoOp /\ last = held)

C5_Witness ==
  /\ pc = "resolved" /\ held.step.value = "FAIL"
  /\ held.stars # <<>> /\ ~Covered /\ metadataSource = SrcB

\* the call was started on an Ok state bound to another source than requested
OtherSource ==
  held.step.value = "OK" /\ held.step.meta.source # metadataSource

\* the state is bound to the requested source and holds stars of it only
Reloaded ==
  /\ state.step.value = "OK"
  /\ state.step.meta.source = metadataSource
  /\ \A n \in DOMAIN state.stars : state.stars[n].source = metadataSource

\* C6 as stated: every call on an Ok state bound to another source resolves
\* with a state bound to the requested source that holds no star of the
\* previous source.
C6_SourceChangeReloads == (pc = "resolved" /\ OtherSource) => Reloaded

\* C6 amended: a call on an Ok state bound to another source, whose
\* loadedVmag is not greater than the requested vmag, resolves with a state
\* bound to the requested source that holds no star of the previous source.
C6_SourceChangeReloadsUnlessCovered ==
  (pc = "resolved" /\ OtherSource /\ ~Covered) => Reloaded

C6_Witness ==
  /\ pc = "resolved" /\ OtherSource /\ ~Covered
  /\ held.stars # <<>> /\ state.stars # <<>>

\* C7: while every call asks for the same source and starts from the state
\* last notified or returned, the set of star identifiers of each notified
\* or returned state includes that of the one before.
C7_CatalogNeverShrinks ==
  [][fixedChain' => DOMAIN last.stars \subseteq DOMAIN last'.stars]_vars

C7_Witness ==
  /\ fixedChain /\ pc = "resolved" /\ held.stars # <<>>
  /\ DOMAIN held.stars # DOMAIN state.stars

\* the step of C8
C8_Step ==
  pc \in {"meta", "star"} =>
       /\ (pc = "meta" /\ state'.step.value = "OK") =>
            (notified' = notified + 1 /\ last' = state')
       /\ (pc = "star" /\ succeeded' = succeeded + 1) =>
            /\ notified' = notified + 1 /\ last' = state'
            /\ state'.loadedVmag = Num(entries[idx].satisfyingVmag)
            /\ DOMAIN state'.stars =
                 DOMAIN state.stars
                   \cup RawStarNumbers(state.step.meta.source, entries[idx].file)
       /\ state'.step.value = "FAIL" =>
            (notified' = notified + 1 /\ last' = state')
       /\ (failureCount' = failureCount + 1 /\ pc' # "rejected") =>
            (notified' = notified /\ last' = last)

\* C8: the callback is invoked once after the metadata load, once after
\* each band merge with the merged catalog and loadedVmag equal to that
\* band's upper, once on the transition to Fail, and not at all by a failed
\* attempt that is retried.
C8_NotifiedOncePerStep == [][C8_Step]_vars

C8_Witness ==
  pc = "rejected" /\ succeeded = 3 /\ notified = 4 /\ failureCount = MaxRetry + 1

\* the step of C9
C9_Step ==
  (pc \in {"meta", "star"} /\ pc' = "rejected") =>
       /\ state'.step.value = "FAIL"
       /\ state'.stars = state.stars
       /\ state'.loadedVmag = state.loadedVmag
       /\ last' = state'

\* C9: when the retry budget is exhausted the Fail state has the stars and
\* the loadedVmag of the state before the failing fetch.
C9_NoRollback == [][C9_Step]_vars

C9_Witness ==
  pc = "rejected" /\ succeeded > 1 /\ state.stars # <<>> /\ state.loadedVmag # NULL

\* the step of C10
C10_Step ==
  (pc \in {"meta", "star"} /\ pc' = "rejected") =>
       /\ state'.step.error = thrown'
       /\ pc = "star" => state'.step.meta = state.step.meta
       /\ pc = "meta" => state'.step.meta = NULL

\* C10: when the retry budget is exhausted the Fail step carries the error
\* and the metadata loaded before: that of the Ok step the fetch failed in,
\* null if the failure was the metadata fetch.
C10_FailKeepsMetadata == [][C10_Step]_vars

\* the state the code is about to work on: the argument when a call starts,
\* the local variable while the call runs
Current == IF pc = "idle" THEN held ELSE state

\* the step changes the loader may make
ForwardSteps ==
  {<<"INIT", "OK">>, <<"INIT", "FAIL">>, <<"OK", "FAIL">>, <<"OK", "INIT">>}

\* the step of C11
C11_Step ==
  LET from == Current.step.value
      to == state'.step.value
  IN  (pc' # "idle" /\ from # to) =>
        /\ <<from, to>> \in ForwardSteps
        /\ to = "INIT" => Current.step.meta.source # metadataSource'

\* C11: the only step changes are Init to Ok, Init to Fail, Ok to Fail and
\* Ok to Init, the last only when the requested source differs from the
\* source of the loaded metadata; no step change leaves Fail.
C11_StepMovesForward == [][C11_Step]_vars

C11_Witness ==
  /\ pc = "rejected" /\ held.step.value = "OK"
  /\ held.step.meta.source # metadataSource
  /\ succeeded > 0 /\ state.step.value = "FAIL"

(* ---------------- the fetcher effect of the provider ------------------ *)
\* the default of the retryCount parameter, which the effect does not pass
DefaultRetryCount == 3

\* the metadataSource prop of the provider
EffectSource == SrcA

\* an action of the fetcher effect leaves the rest alone
EffectFrame == UNCHANGED <<loaderVars, observerVars, providerVars, hookVars, hitVars,
    sizeVars,
    pathVars,
    refVars,
    gridVars,
    inputVars>>

\* the least free slot
FreeSlot ==
  CHOOSE c \in Slots :
    calls[c].pc = "free" /\ \A d \in Slots : calls[d].pc = "free" => c <= d

\* the call after a loop pass with outcome p
Suspended(call, p) ==
  [call EXCEPT !.pc = p.pc, !.state = p.state, !.entries = p.entries,
               !.idx = p.idx, !.fetching = p.fetching]

\* the call fetchStars(st, EffectSource, v) up to its first await or return
Begun(st, v) ==
  LET call == [NoCall EXCEPT !.start = st, !.state = st, !.vmag = v]
  IN  IF AlreadyResolved(st, v)
      THEN [call EXCEPT !.pc = "resolved"]
      ELSE Suspended(call, LoopPass(st, EffectSource, v))

\* the provider mounts with props.vMag = v, or props.vMag changes to v: the
\* effect runs and calls fetchStars with the fetchState of this render
RunEffect(v) ==
  /\ Num(v) # effectVmag
  /\ \E c \in Slots : calls[c].pc = "free"
  /\ calls' = [calls EXCEPT ![FreeSlot] = Begun(fetchState, v)]
  /\ effectVmag' = Num(v)
  /\ UNCHANGED <<fetchState, propsStars, everPublished>>
  /\ EffectFrame

\* the fetchMetadata awaited by call c resolves
EffectMetadataFetched(c) ==
  /\ calls[c].pc = "meta"
  /\ LET call == calls[c]
         s1 == WithMetadata(call.state, fetchMetadata(call.fetching.url))
     IN  calls' = [calls EXCEPT
                     ![c] = Suspended(call, LoopPass(s1, EffectSource, call.vmag))]
  /\ UNCHANGED <<fetchState, propsStars, effectVmag, everPublished>>
  /\ EffectFrame

\* the fetchStar awaited by call c resolves
EffectStarFetched(c) ==
  /\ calls[c].pc = "star"
  /\ LET call == calls[c]
         s1 == Merged(call.state, call.entries[call.idx],
                      fetchStar(call.fetching.metadata, call.fetching.file))
         merged == [call EXCEPT !.state = s1,
                                !.own = call.own \cup {call.fetching.file}]
     IN  calls' = [calls EXCEPT ![c] =
           IF call.idx < Len(call.entries)
           THEN [merged EXCEPT
                   !.idx = call.idx + 1,
                   !.fetching.file = call.entries[call.idx + 1].file]
           ELSE [merged EXCEPT !.pc = "resolved", !.fetching = NULL]]
  /\ UNCHANGED <<fetchState, propsStars, effectVmag, everPublished>>
  /\ EffectFrame

\* the fetch awaited by call c rejects with error e
EffectFetchFailed(c, e) ==
  /\ calls[c].pc \in {"meta", "star"}
  /\ LET call == calls[c]
         k == catchBlock(call.state, call.failureCount, DefaultRetryCount, e)
         counted == [call EXCEPT !.failureCount = k.failureCount]
     IN  calls' = [calls EXCEPT ![c] =
           IF k.thrown # NoError
           THEN [counted EXCEPT !.pc = "rejected", !.state = k.state,
                                !.fetching = NULL]
           ELSE Suspended(counted, LoopPass(k.state, EffectSource, call.vmag))]
  /\ UNCHANGED <<fetchState, propsStars, effectVmag, everPublished>>
  /\ EffectFrame

\* call c has resolved: the effect publishes its stars and keeps its state
EffectResolved(c) ==
  /\ calls[c].pc = "resolved"
  /\ propsStars' = calls[c].state.stars
  /\ fetchState' = calls[c].state
  /\ everPublished' = everPublished \cup DOMAIN calls[c].state.stars
  /\ calls' = [calls EXCEPT ![c] = NoCall]
  /\ UNCHANGED effectVmag
  /\ EffectFrame

\* call c has rejected: nothing handles the rejection
EffectRejected(c) ==
  /\ calls[c].pc = "rejected"
  /\ calls' = [calls EXCEPT ![c] = NoCall]
  /\ UNCHANGED <<fetchState, propsStars, effectVmag, everPublished>>
  /\ EffectFrame

EffectNext ==
  \/ \E v \in PropVmags : RunEffect(v)
  \/ \E c \in Slots : EffectMetadataFetched(c)
  \/ \E c \in Slots : EffectStarFetched(c)
  \/ \E c \in Slots, e \in Errors : EffectFetchFailed(c, e)
  \/ \E c \in Slots : EffectResolved(c)
  \/ \E c \in Slots : EffectRejected(c)

SpecEffect == Init /\ [][EffectNext]_vars

\* the star numbers listed by a set of band files of the provider's source
StarsOfFiles(files) == UNION {RawStarNumbers(EffectSource, f) : f \in files}

\* a resolved call holds the catalog it started from and the bands it
\* fetched itself, whatever the other call has merged meanwhile
C12_OwnMergesOnly ==
  \A c \in Slots :
    calls[c].pc = "resolved" =>
      /\ DOMAIN calls[c].state.stars =
           DOMAIN calls[c].start.stars \cup StarsOfFiles(calls[c].own)
      /\ \A n \in DOMAIN calls[c].start.stars \ StarsOfFiles(calls[c].own) :
           calls[c].state.stars[n] = calls[c].start.stars[n]

\* the call that is taken last replaces what was published before
C12_LastWriteWins ==
  \A c \in Slots :
    (calls[c].pc = "resolved" /\ calls'[c].pc = "free") =>
      (propsStars' = calls[c].state.stars /\ fetchState' = calls[c].state)

\* C12: two interleaved calls started from the same state do not see each
\* other's merges: each resolves with the starting catalog plus its own
\* fetched bands, and the caller keeps the result of the call that resolves
\* last, so stars merged by the other call can be lost.
C12_InterleavedCallsAreIsolated ==
  []C12_OwnMergesOnly /\ [][C12_LastWriteWins]_vars

\* both calls started from the same state and have resolved; taking call 1
\* and then call 2 loses stars that call 1 merged
C12_Witness ==
  /\ calls[1].pc = "resolved" /\ calls[2].pc = "resolved"
  /\ calls[1].start = calls[2].start /\ calls[1].start = fetchState
  /\ ~(DOMAIN calls[1].state.stars \subseteq DOMAIN calls[2].state.stars)


(* ------------------------------ Observer ------------------------------ *)
\* milliarcseconds in an hour-angle unit: the divisor of the proper motion
PmScale == 3600000

ObserverFrame == UNCHANGED <<loaderVars, effectVars, providerVars, hookVars, hitVars,
    sizeVars,
    pathVars,
    refVars,
    gridVars,
    inputVars>>

Star1 == [epoch |-> 0, ra |-> 1, dec |-> 2, pmRa |-> PmScale, pmDec |-> 0]
Star2 == [epoch |-> 1, ra |-> 3, dec |-> 0 - 1, pmRa |-> 0,
          pmDec |-> 0 - PmScale]

\* star dictionaries the component is given
StarDicts == {<<>>, 1 :> Star1, 1 :> Star1 @@ 2 :> Star2}

ObsTargets == {AzAlt(0, 45), AzAlt(90, 0), RaDec(1, 2),
               StarRef(1), StarRef(2), StarRef(3)}
ObsClocks == 0..MaxClock
ObsFovs == {60, 100}
ObsZooms == {1, 2}

\* stars[n]: <<>> is undefined
Lookup(stars, n) == IF n \in DOMAIN stars THEN <<stars[n]>> ELSE <<>>

\* a star that is read although it is undefined, answered with a default
getStarRaDec_Defaulting(star, clock) ==
  IF star = <<>> THEN [thrown |-> FALSE, ra |-> 0, dec |-> 0]
  ELSE LET passedYears == clock - star[1].epoch
       IN  [thrown |-> FALSE,
            ra |-> star[1].ra + (star[1].pmRa * passedYears) \div PmScale,
            dec |-> star[1].dec + (star[1].pmDec * passedYears) \div PmScale]

\* reading star.epoch of undefined throws a TypeError
getStarRaDec(star, clock) ==
  IF star = <<>> THEN [thrown |-> TRUE, ra |-> 0, dec |-> 0]
  ELSE LET passedYears == clock - star[1].epoch
       IN  [thrown |-> FALSE,
            ra |-> star[1].ra + (star[1].pmRa * passedYears) \div PmScale,
            dec |-> star[1].dec + (star[1].pmDec * passedYears) \div PmScale]

convertTargetStarToRaDec(universeClock, stars, target) ==
  LET r == getStarRaDec(Lookup(stars, target.starNumber), universeClock)
  IN  [thrown |-> r.thrown, rt |-> RaDec(r.ra, r.dec)]

\* a quaternion is named by the angles it is composed from
getCameraQuaternionFromRaDec(ra, dec) == [of |-> "radec", ra |-> ra, dec |-> dec]

getCameraQuaternionFromAzAlt(universeClock, azimuth, altitude) ==
  [of |-> "azalt", clock |-> universeClock, azimuth |-> azimuth,
   altitude |-> altitude]

\* an object is truthy whatever it holds: a reference to one is tested as
\* a reference to a number that is not 0
ObjectRef(ref) == IF ref = NULL THEN NULL ELSE <<1>>

\* outcome of setAnimationRefs: the parameter, and whether the setter ran
\* (`!paramRef.current`: null and 0 are falsy)
setAnimationRefs(objRef, paramRef, value) ==
  IF objRef
  THEN [param |-> <<value>>, set |-> ~Truthy(paramRef)]
  ELSE [param |-> NULL, set |-> FALSE]

\* the component renders with a target, clock, fov and zoom: the ref is
\* attached and the effect runs
Render(t, c, f, z) ==
  /\ ~obsThrown
  /\ ~cameraRef
       \/ <<t, c, <<f>>, <<z>>>> # <<obsTarget, obsClock, fovParams, zoomParams>>
  /\ cameraRef' = TRUE
  /\ obsTarget' = t
  /\ obsClock' = c
  /\ obsLast' = "effect"
  /\ LET res == IF t.kind = "star"
                THEN convertTargetStarToRaDec(c, obsStars, t)
                ELSE [thrown |-> FALSE, rt |-> t]
         rt == res.rt
         q == IF rt.kind = "radec"
              THEN getCameraQuaternionFromRaDec(rt.ra, rt.dec)
              ELSE getCameraQuaternionFromAzAlt(c, rt.azimuth, rt.altitude)
         rot == setAnimationRefs(TRUE, ObjectRef(rotParams), q)
         fov == setAnimationRefs(TRUE, fovParams, f)
         zoom == setAnimationRefs(TRUE, zoomParams, z)
     IN  IF res.thrown
         THEN /\ obsThrown' = TRUE
              /\ UNCHANGED <<rotParams, fovParams, zoomParams, camera>>
         ELSE /\ obsThrown' = FALSE
              /\ rotParams' = rot.param
              /\ fovParams' = fov.param
              /\ zoomParams' = zoom.param
              /\ camera' =
                   [quaternion |-> IF rot.set THEN <<q>> ELSE camera.quaternion,
                    fov |-> IF fov.set THEN <<f>> ELSE camera.fov,
                    zoom |-> IF zoom.set THEN <<z>> ELSE camera.zoom]
  /\ UNCHANGED obsStars
  /\ ObserverFrame

\* the star dictionary changes: the effect does not depend on it
StarsChanged(s) ==
  /\ ~obsThrown
  /\ s # obsStars
  /\ obsStars' = s
  /\ obsLast' = "stars"
  /\ UNCHANGED <<cameraRef, obsTarget, obsClock, rotParams, fovParams,
                 zoomParams, camera, obsThrown>>
  /\ ObserverFrame

\* useFrame with the default animationSpeed of 1.0: slerp and lerp reach
\* the parameters
Frame ==
  /\ cameraRef /\ ~obsThrown
  /\ camera' =
       [quaternion |-> IF rotParams # NULL THEN rotParams ELSE camera.quaternion,
        fov |-> IF Truthy(fovParams) THEN fovParams ELSE camera.fov,
        zoom |-> IF Truthy(zoomParams) THEN zoomParams ELSE camera.zoom]
  /\ camera' # camera
  /\ obsLast' = "frame"
  /\ UNCHANGED <<cameraRef, obsStars, obsTarget, obsClock, rotParams,
                 fovParams, zoomParams, obsThrown>>
  /\ ObserverFrame

\* the component is unmounted and a new one is mounted in its place
Remount ==
  /\ cameraRef
  /\ cameraRef' = FALSE
  /\ rotParams' = NULL /\ fovParams' = NULL /\ zoomParams' = NULL
  /\ camera' = [quaternion |-> NULL, fov |-> NULL, zoom |-> NULL]
  /\ obsThrown' = FALSE
  /\ obsLast' = "mount"
  /\ UNCHANGED <<obsStars, obsTarget, obsClock>>
  /\ ObserverFrame

ObserverNext ==
  \/ \E t \in ObsTargets, c \in ObsClocks, f \in ObsFovs, z \in ObsZooms :
       Render(t, c, f, z)
  \/ \E s \in StarDicts : StarsChanged(s)
  \/ Frame
  \/ Remount

SpecObserver == Init /\ [][ObserverNext]_vars

\* the target names a star that the dictionary does not hold
TargetMissing == obsTarget.kind = "star"
                   /\ obsTarget.starNumber \notin DOMAIN obsStars

C13_Step ==
  (obsLast' = "effect" /\ TargetMissing') =>
     /\ obsThrown'
     /\ UNCHANGED <<rotParams, fovParams, zoomParams, camera>>

\* C13: resolving a star target whose star is absent from the catalog throws
\* out of the effect at once and sets no orientation: the rotation parameter
\* and the camera keep what they had
C13_MissingStarThrows == [][C13_Step]_vars

C13_Witness ==
  /\ obsLast = "effect" /\ TargetMissing /\ obsThrown
  /\ rotParams # NULL /\ rotParams[1].of = "radec"
  /\ obsStars # <<>>


(* ---------------------- handlers of the provider ---------------------- *)
ProviderFrame == UNCHANGED <<loaderVars, effectVars, observerVars, hookVars, hitVars,
    sizeVars,
    pathVars,
    refVars,
    gridVars,
    inputVars>>

Max(a, b) == IF a >= b THEN a ELSE b
\* a minimum that always answers its second argument
Min_Second(a, b) == b

Min(a, b) == IF a <= b THEN a ELSE b

\* the zoom limits of onZoom
MinZoom == 1
DefaultMaxZoom == 10

\* angles of moves, in degrees: quarter turns
Turns(n) == {90 * k : k \in (0 - n)..n}
MoveEvents == [azimuth : Turns(MaxAzTurns), altitude : Turns(MaxAltTurns)]
\* zoom deltas, in steps of 3
ZoomEvents == [zoomDelta : {3 * k : k \in (0 - MaxZoomSteps)..MaxZoomSteps} \ {0}]
\* e.namedStar?.id of a select event: <<>> when no named star was hit
SelectEvents == [namedStarId : {NULL, <<1>>}]
MaxZooms == {NULL, <<4>>}
Options == {"controllable", "selectable", "previewOnSelect",
            "previewOnMove", "previewOnZoom"}

normalizeAzimuth(azimuth) ==
  IF azimuth > 360 THEN azimuth - 360
  ELSE IF azimuth < 0 THEN azimuth + 360 ELSE azimuth

\* a clamp that forgets the lower limit
normalizeAltitude_NoFloor(altitude) == Min(90, altitude)

normalizeAltitude(altitude) == Max(0 - 90, Min(90, altitude))

\* a preview result that is never looked at
previewCancels_Ignored(handler, result) == FALSE

\* props.previewOnX && props.previewOnX(e) === false
previewCancels(handler, result) == handler /\ result = FALSE

\* what a preview handler can answer; one that is not set is not called
Answers(handler) == IF handler THEN BOOLEAN ELSE {TRUE}

\* what the preview handler was seen to answer
Answer(handler, result) ==
  IF ~handler THEN "none" ELSE IF result THEN "true" ELSE "false"

\* an event handled up to the point where it returns or updates the props
Handled(kind, enabled, handler, result, over, updatedProps) ==
  /\ IF ~enabled
     THEN /\ provLast' = [kind |-> kind, preview |-> "none",
                          updated |-> FALSE, over |-> FALSE]
          /\ UNCHANGED props
     ELSE IF previewCancels(handler, result)
     THEN /\ provLast' = [kind |-> kind, preview |-> "false",
                          updated |-> FALSE, over |-> FALSE]
          /\ UNCHANGED props
     ELSE /\ provLast' = [kind |-> kind, preview |-> Answer(handler, result),
                          updated |-> TRUE, over |-> over]
          /\ props' = updatedProps
  /\ ProviderFrame

\* result is what props.previewOnSelect answers if it is set and called
onSelect(e, result) ==
  Handled("select", props.selectable, props.previewOnSelect, result, FALSE,
          [props EXCEPT !.targetStarNumber =
             IF Truthy(props.targetStarNumber) THEN NULL
             ELSE IF Truthy(e.namedStarId) THEN e.namedStarId ELSE NULL])

onMove(e, result) ==
  Handled("move", props.controllable, props.previewOnMove, result,
          props.altitude + e.altitude \notin (0 - 90)..90,
          [props EXCEPT
             !.azimuth = normalizeAzimuth(props.azimuth + e.azimuth),
             !.altitude = normalizeAltitude(props.altitude + e.altitude)])

onZoom(e, result) ==
  Handled("zoom", props.controllable, props.previewOnZoom, result, FALSE,
          [props EXCEPT !.zoom =
             Max(MinZoom,
                 Min(IF Truthy(props.maxZoom) THEN props.maxZoom[1]
                     ELSE DefaultMaxZoom,
                     props.zoom + e.zoomDelta))])

\* the consumer switches an option through setProps
SetOption(o) ==
  /\ props' = [props EXCEPT ![o] = ~props[o]]
  /\ UNCHANGED provLast
  /\ ProviderFrame

SetMaxZoom(m) ==
  /\ m # props.maxZoom
  /\ props' = [props EXCEPT !.maxZoom = m]
  /\ UNCHANGED provLast
  /\ ProviderFrame

ProviderNext ==
  \/ \E e \in SelectEvents, r \in Answers(props.previewOnSelect) : onSelect(e, r)
  \/ \E e \in MoveEvents, r \in Answers(props.previewOnMove) : onMove(e, r)
  \/ \E e \in ZoomEvents, r \in Answers(props.previewOnZoom) : onZoom(e, r)
  \/ \E o \in Options : SetOption(o)
  \/ \E m \in MaxZooms : SetMaxZoom(m)

SpecProvider == Init /\ [][ProviderNext]_vars

\* C14: starting from azimuth 0, after any sequence of move events the
\* stored azimuth is at least 0 and less than 360
C14_AzimuthInRange == props.azimuth >= 0 /\ props.azimuth < 360

\* C15: after any move event the stored altitude is between -90 and 90,
\* whatever the altitude delta was
C15_AltitudeInRange == props.altitude >= 0 - 90 /\ props.altitude <= 90

\* a move was handled whose altitude sum was below the range
C15_Witness ==
  /\ provLast.kind = "move" /\ provLast.updated /\ provLast.over
  /\ props.altitude = 0 - 90

\* an event whose preview handler answered false
Vetoed == provLast.preview = "false"

\* the sight, zoom and target that the default handling updates
Sight(p) == <<p.targetStarNumber, p.azimuth, p.altitude, p.zoom>>

\* the preview handler that is set for a kind of event
PreviewOf(kind) ==
  CASE kind = "select" -> props.previewOnSelect
    [] kind = "move" -> props.previewOnMove
    [] kind = "zoom" -> props.previewOnZoom
    [] OTHER -> FALSE

C19_Step ==
  /\ Vetoed' => (Sight(props') = Sight(props) /\ ~provLast'.updated)
  /\ Sight(props') # Sight(props) =>
       /\ provLast'.updated
       /\ PreviewOf(provLast'.kind) => provLast'.preview = "true"

\* C19: when a preview handler answers false for an event, the event changes
\* none of targetStarNumber, azimuth, altitude and zoom; an update is made
\* only after the preview handler, if one is set, was called and let it pass
C19_PreviewFalseCancels == [][C19_Step]_vars

\* a move that its preview handler vetoed, away from the initial sight
C19_Witness ==
  /\ Vetoed /\ provLast.kind = "move" /\ props.previewOnMove
  /\ props.azimuth # 0 /\ props.targetStarNumber # NULL /\ props.zoom # 1


(* -------------------------- useCelestialEngine ------------------------ *)
HookFrame == UNCHANGED <<loaderVars, effectVars, observerVars, providerVars, hitVars,
    sizeVars,
    pathVars,
    refVars,
    gridVars,
    inputVars>>

\* values a CelestialEngineContext.Provider can hold: null or a context
ContextValues == {NULL, <<"ctx1">>, <<"ctx2">>, <<"ctx3">>}

\* useContext: the value of the nearest provider, the default (null) if none
useContext(stack) == IF stack = <<>> THEN NULL ELSE stack[Len(stack)]

\* a hook that hands on whatever useContext gave
useCelestialEngine_Unchecked(stack) ==
  [called |-> TRUE, thrown |-> FALSE, value |-> useContext(stack)]

useCelestialEngine(stack) ==
  LET context == useContext(stack)
  IN  IF context = NULL
      THEN [called |-> TRUE, thrown |-> TRUE, value |-> NULL]
      ELSE [called |-> TRUE, thrown |-> FALSE, value |-> context]

\* the tree is entered one provider deeper
EnterProvider(v) ==
  /\ Len(providers) < MaxDepth
  /\ providers' = Append(providers, v)
  /\ hookResult' = [called |-> FALSE, thrown |-> FALSE, value |-> NULL]
  /\ HookFrame

LeaveProvider ==
  /\ providers # <<>>
  /\ providers' = SubSeq(providers, 1, Len(providers) - 1)
  /\ hookResult' = [called |-> FALSE, thrown |-> FALSE, value |-> NULL]
  /\ HookFrame

\* a component at this place of the tree calls the hook
CallHook ==
  /\ ~hookResult.called
  /\ hookResult' = useCelestialEngine(providers)
  /\ UNCHANGED providers
  /\ HookFrame

HookNext ==
  \/ \E v \in ContextValues : EnterProvider(v)
  \/ LeaveProvider
  \/ CallHook

SpecHook == Init /\ [][HookNext]_vars

\* no provider encloses the call, or the nearest one holds null
NoContextValue == providers = <<>> \/ providers[Len(providers)] = NULL

\* C20: useCelestialEngine throws when no context value is provided, and
\* otherwise returns exactly the value held by the nearest provider
C20_HookThrowsOrReturnsNearest ==
  hookResult.called =>
    IF NoContextValue THEN hookResult.thrown
    ELSE ~hookResult.thrown
           /\ hookResult.value = providers[Len(providers)]

\* the hook returned the nearest value under an outer provider of another
C20_Witness ==
  /\ hookResult.called /\ ~hookResult.thrown
  /\ Len(providers) >= 2
  /\ providers[1] # providers[Len(providers)]
  /\ providers[1] # NULL


(* ------------------------------ hit testing --------------------------- *)
(* Angles are integers in units of 15 degrees: pi is 12.  Right            *)
(* ascensions are multiples of 90 degrees and declinations multiples of    *)
(* 45 degrees, so that every sine and cosine is (a + b*sqrt(2))/2 for      *)
(* integers a and b, written <<a, b>>, and every central angle is a        *)
(* multiple of 15 degrees.  A number that a division yields is a pair      *)
(* [num, den]: 0/0 is NaN and n/0 an infinity, as in the code's floats.    *)
HitFrame == UNCHANGED <<loaderVars, effectVars, observerVars, providerVars,
                        hookVars,
    sizeVars,
    pathVars,
    refVars,
    gridVars,
    inputVars>>

Pi == 12

sin(a) ==
  LET n == (a \div 3) % 8
  IN  CASE n = 0 -> <<0, 0>>
        [] n = 1 -> <<0, 1>>
        [] n = 2 -> <<2, 0>>
        [] n = 3 -> <<0, 1>>
        [] n = 4 -> <<0, 0>>
        [] n = 5 -> <<0, 0 - 1>>
        [] n = 6 -> <<0 - 2, 0>>
        [] n = 7 -> <<0, 0 - 1>>

cos(a) == sin(a + 6)

\* product and sum of two numbers (a + b*sqrt(2))/2
Mul(x, y) == <<(x[1] * y[1] + 2 * x[2] * y[2]) \div 2,
               (x[1] * y[2] + x[2] * y[1]) \div 2>>
Add(x, y) == <<x[1] + y[1], x[2] + y[2]>>

\* Math.acos, in units of 15 degrees
acos(x) ==
  CASE x = <<2, 0>> -> 0
    [] x = <<0, 1>> -> 3
    [] x = <<1, 0>> -> 4
    [] x = <<0, 0>> -> 6
    [] x = <<0 - 1, 0>> -> 8
    [] x = <<0, 0 - 1>> -> 9
    [] x = <<0 - 2, 0>> -> 12

Abs(n) == IF n < 0 THEN 0 - n ELSE n

\* numbers as quotients
Quot(n, d) == IF d < 0 THEN [num |-> 0 - n, den |-> 0 - d]
              ELSE [num |-> n, den |-> d]
Whole(n) == [num |-> n, den |-> 1]
IsNaN(x) == x.num = 0 /\ x.den = 0
Lt(x, y) == ~IsNaN(x) /\ ~IsNaN(y) /\ x.num * y.den < y.num * x.den
Le(x, y) == ~IsNaN(x) /\ ~IsNaN(y) /\ x.num * y.den <= y.num * x.den
Eq(x, y) == ~IsNaN(x) /\ ~IsNaN(y) /\ x.num * y.den = y.num * x.den

normDec(dec) ==
  IF dec > Pi * 2 THEN dec - Pi * 2
  ELSE IF dec < 0 - (Pi * 2) THEN dec + Pi * 2 ELSE dec

\* a point is <<ra, dec>>
calcDistance(p0RaDec, p1RaDec) ==
  LET angle == acos(Add(Mul(sin(p0RaDec[2]), sin(p1RaDec[2])),
                        Mul(Mul(cos(p0RaDec[2]), cos(p1RaDec[2])),
                            cos(Abs(p0RaDec[1] - p1RaDec[1])))))
  IN  Whole(angle * angle)

\* the projection parameter of calcDistanceLine
ProjectionK(pRaDec, l0RaDec, l1RaDec) ==
  LET vl == <<l1RaDec[1] - l0RaDec[1], normDec(l1RaDec[2] - l0RaDec[2])>>
      vp == <<pRaDec[1] - l0RaDec[1], normDec(pRaDec[2] - l0RaDec[2])>>
      ll2 == vl[1] * vl[1] + vl[2] * vl[2]
  IN  Quot(vl[1] * vp[1] + vl[2] * vp[2], ll2)

\* the perpendicular component, squared
Perpendicular(pRaDec, l0RaDec, l1RaDec) ==
  LET vl == <<l1RaDec[1] - l0RaDec[1], normDec(l1RaDec[2] - l0RaDec[2])>>
      vp == <<pRaDec[1] - l0RaDec[1], normDec(pRaDec[2] - l0RaDec[2])>>
      ll2 == vl[1] * vl[1] + vl[2] * vl[2]
      cross == vl[1] * vp[2] - vl[2] * vp[1]
  IN  Quot(cross * cross, ll2)

calcDistanceLine(pRaDec, l0RaDec, l1RaDec) ==
  LET k == ProjectionK(pRaDec, l0RaDec, l1RaDec)
  IN  IF Le(k, Whole(0)) THEN calcDistance(pRaDec, l0RaDec)
      ELSE IF Le(Whole(1), k) THEN calcDistance(pRaDec, l1RaDec)
      ELSE Perpendicular(pRaDec, l0RaDec, l1RaDec)

\* the grid of points
RAs == {0, 6, 12, 18}
Decs == {0 - 6, 0 - 3, 0, 3, 6}
Points == RAs \X Decs

\* the constellation table: per constellation, the star pairs of its lines
CONSTELLATIONS ==
  <<[consKey |-> "A", starPair |-> <<<<1, 2>>>>],
    [consKey |-> "B", starPair |-> <<<<2, 3>>>>]>>

HitStarIds == 1..MaxHitStars
CatalogPoints == {<<0, 0>>, <<6, 0>>, <<6, 3>>}
HitVmags == {1, 5}
Thresholds == {3, 6}
StarNameSets == {{}, {2}, {1, 3}}

HitStar(id, point, v) ==
  [id |-> id, vMag |-> v, ra |-> point[1], dec |-> point[2], epoch |-> 0,
   pmRa |-> 0, pmDec |-> 0]

\* position of a star at the clock, as a point
StarPoint(star, clock) ==
  LET r == getStarRaDec(<<star>>, clock) IN <<r.ra, r.dec>>

\* Object.values(stars): the stars in ascending order of their numbers
RECURSIVE ValuesFrom(_, _)
ValuesFrom(stars, ids) ==
  IF ids = {} THEN <<>>
  ELSE LET least == CHOOSE i \in ids : \A j \in ids : i <= j
       IN  <<stars[least]>> \o ValuesFrom(stars, ids \ {least})
Values(stars) == ValuesFrom(stars, DOMAIN stars)

\* the comparator of both sorts
ByDistance(x, y) ==
  IF Lt(x.distance, y.distance) THEN 0 - 1
  ELSE IF Lt(y.distance, x.distance) THEN 1 ELSE 0

\* Array.prototype.sort with that comparator: stable insertion
RECURSIVE InsertByDistance(_, _)
InsertByDistance(sorted, x) ==
  IF sorted = <<>> THEN <<x>>
  ELSE IF ByDistance(sorted[Len(sorted)], x) > 0
  THEN Append(InsertByDistance(SubSeq(sorted, 1, Len(sorted) - 1), x),
              sorted[Len(sorted)])
  ELSE Append(sorted, x)

RECURSIVE SortByDistance(_)
SortByDistance(xs) ==
  IF xs = <<>> THEN <<>>
  ELSE InsertByDistance(SortByDistance(SubSeq(xs, 1, Len(xs) - 1)),
                        xs[Len(xs)])

\* flatMap of the table: one entry per star pair
RECURSIVE Segments(_)
Segments(table) ==
  IF table = <<>> THEN <<>>
  ELSE [i \in 1..Len(table[1].starPair) |->
          [consKey |-> table[1].consKey, pair |-> table[1].starPair[i]]]
       \o Segments(SubSeq(table, 2, Len(table)))

\* both stars of the pair are in the dictionary and not dimmer than vMag
SegmentVisible(stars, pair, vMag) ==
  \A i \in 1..2 : pair[i] \in DOMAIN stars /\ stars[pair[i]].vMag <= vMag

\* array.find(test) || null over the sorted stars
RECURSIVE FindNamed(_, _)
FindNamed(sorted, starNames) ==
  IF sorted = <<>> THEN NULL
  ELSE IF sorted[1].id \in starNames THEN <<sorted[1]>>
  ELSE FindNamed(SubSeq(sorted, 2, Len(sorted)), starNames)

\* array[0]: <<>> is undefined
First(xs) == IF xs = <<>> THEN NULL ELSE <<xs[1]>>

createClickEvent(stars, starNames, clock, radec, vMag) ==
  LET visible == SelectSeq(Values(stars), LAMBDA star : star.vMag <= vMag)
      withD == [i \in 1..Len(visible) |->
                  [id |-> visible[i].id,
                   distance |-> calcDistance(radec,
                                             StarPoint(visible[i], clock))]]
      sortedStarsByD == SortByDistance(withD)
      segs == SelectSeq(Segments(CONSTELLATIONS),
                        LAMBDA d : SegmentVisible(stars, d.pair, vMag))
      consD == [i \in 1..Len(segs) |->
                  [consKey |-> segs[i].consKey,
                   distance |->
                     calcDistanceLine(radec,
                                      StarPoint(stars[segs[i].pair[1]], clock),
                                      StarPoint(stars[segs[i].pair[2]], clock))]]
      sortedConsByD == SortByDistance(consD)
  IN  [ra |-> radec[1], dec |-> radec[2],
       star |-> First(sortedStarsByD),
       namedStar |-> FindNamed(sortedStarsByD, starNames),
       constellation |-> First(sortedConsByD)]

\* the star dictionary gets, replaces or loses a star
SetStar(id, point, v) ==
  /\ hitStars' = (id :> HitStar(id, point, v)) @@ hitStars
  /\ hitStars' # hitStars
  /\ hitClick' = NULL /\ hitEvent' = NULL
  /\ UNCHANGED lineCall
  /\ HitFrame

RemoveStar(id) ==
  /\ id \in DOMAIN hitStars
  /\ hitStars' = [i \in DOMAIN hitStars \ {id} |-> hitStars[i]]
  /\ hitClick' = NULL /\ hitEvent' = NULL
  /\ UNCHANGED lineCall
  /\ HitFrame

\* fireOnClick: a click at radec makes the select event
Click(radec, vMag, starNames) ==
  /\ hitClick = NULL
  /\ hitClick' = <<[radec |-> radec, vMag |-> vMag, starNames |-> starNames]>>
  /\ hitEvent' = <<createClickEvent(hitStars, starNames, 0, radec, vMag)>>
  /\ UNCHANGED <<hitStars, lineCall>>
  /\ HitFrame

\* onSelect has taken the event
EventTaken ==
  /\ hitClick # NULL
  /\ hitClick' = NULL /\ hitEvent' = NULL
  /\ UNCHANGED <<hitStars, lineCall>>
  /\ HitFrame

HitNext ==
  \/ \E id \in HitStarIds, point \in CatalogPoints, v \in HitVmags :
       SetStar(id, point, v)
  \/ \E id \in HitStarIds : RemoveStar(id)
  \/ \E radec \in Points, vMag \in Thresholds, starNames \in StarNameSets :
       Click(radec, vMag, starNames)
  \/ EventTaken

SpecHit == Init /\ [][HitNext]_vars

\* calcDistanceLine is called on three points
MeasureLine(p, l0, l1) ==
  /\ lineCall = NULL
  /\ lineCall' = <<[p |-> p, l0 |-> l0, l1 |-> l1,
                    thrown |-> FALSE,
                    distance |-> calcDistanceLine(p, l0, l1)]>>
  /\ UNCHANGED <<hitStars, hitClick, hitEvent>>
  /\ HitFrame

\* the caller has taken the result
LineTaken ==
  /\ lineCall # NULL
  /\ lineCall' = NULL
  /\ UNCHANGED <<hitStars, hitClick, hitEvent>>
  /\ HitFrame

LineNext ==
  \/ \E p \in Points, l0 \in Points, l1 \in Points : MeasureLine(p, l0, l1)
  \/ LineTaken

SpecLine == Init /\ [][LineNext]_vars

\* the stars that the click can hit
VisibleStars ==
  {i \in DOMAIN hitStars : hitStars[i].vMag <= hitClick[1].vMag}

DistanceOf(i) == calcDistance(hitClick[1].radec, StarPoint(hitStars[i], 0))

\* result is a star of the candidates that none of them is nearer than
NearestStar(result, candidates) ==
  IF candidates = {} THEN result = NULL
  ELSE /\ result # NULL
       /\ result[1].id \in candidates
       /\ \A j \in candidates : Le(DistanceOf(result[1].id), DistanceOf(j))

AllSegments == Segments(CONSTELLATIONS)

VisibleSegments ==
  {i \in 1..Len(AllSegments) :
     SegmentVisible(hitStars, AllSegments[i].pair, hitClick[1].vMag)}

EndPoint(i, n) == StarPoint(hitStars[AllSegments[i].pair[n]], 0)

Degenerate(i) == EndPoint(i, 1) = EndPoint(i, 2)

\* distance from the click to a segment; a segment of no length is the point
SegmentDistance(i) ==
  IF Degenerate(i) THEN calcDistance(hitClick[1].radec, EndPoint(i, 1))
  ELSE calcDistanceLine(hitClick[1].radec, EndPoint(i, 1), EndPoint(i, 2))

NearestConstellation(result) ==
  IF VisibleSegments = {} THEN result = NULL
  ELSE /\ result # NULL
       /\ \E i \in VisibleSegments :
            /\ AllSegments[i].consKey = result[1].consKey
            /\ \A j \in VisibleSegments :
                 Le(SegmentDistance(i), SegmentDistance(j))

\* C16: the select event reports the nearest visible star, the nearest
\* visible star that has a name, and the constellation of the nearest
\* segment whose two end stars are visible
C16_NearestOfEach ==
  hitEvent # NULL =>
    /\ NearestStar(hitEvent[1].star, VisibleStars)
    /\ NearestStar(hitEvent[1].namedStar,
                   VisibleStars \cap hitClick[1].starNames)
    /\ NearestConstellation(hitEvent[1].constellation)

\* C17: calcDistanceLine is the distance to endpoint 0 for k <= 0, to
\* endpoint 1 for k >= 1, the squared perpendicular component only for
\* 0 < k < 1, and 0 for a point that is one of the endpoints
C17_SegmentDistanceCases ==
  lineCall # NULL =>
    LET c == lineCall[1]
        k == ProjectionK(c.p, c.l0, c.l1)
    IN  /\ IF Le(k, Whole(0))
           THEN Eq(c.distance, calcDistance(c.p, c.l0))
           ELSE IF Le(Whole(1), k)
           THEN Eq(c.distance, calcDistance(c.p, c.l1))
           ELSE /\ Lt(Whole(0), k) /\ Lt(k, Whole(1))
                /\ Eq(c.distance, Perpendicular(c.p, c.l0, c.l1))
        /\ c.p \in {c.l0, c.l1} => Eq(c.distance, Whole(0))

\* C18: calcDistanceLine called on a segment whose endpoints are the same
\* point fails at once: it hands its caller no distance value to rank
C18_DegenerateSegmentFails ==
  (lineCall # NULL /\ lineCall[1].l0 = lineCall[1].l1)
     => lineCall[1].thrown

(* ------------------------- zoom of the provider ----------------------- *)
\* props.maxZoom || 10.0
MaxZoomOf(p) == IF Truthy(p.maxZoom) THEN p.maxZoom[1] ELSE DefaultMaxZoom

\* this step is a zoom event that went through to the update
ZoomApplied ==
  /\ provLast'.kind = "zoom" /\ provLast'.updated
  /\ props' = [props EXCEPT !.zoom = props'.zoom]

C25_Step ==
  ZoomApplied => props'.zoom >= MinZoom /\ props'.zoom <= MaxZoomOf(props)

\* C25: after a zoom event that the provider handles, the stored zoom is at
\* least 1 and at most maxZoom, which is 10 when it is not given
C25_ZoomInRange == [][C25_Step]_vars

\* a zoom event was applied under a given maxZoom and stopped at it
C25_Witness ==
  /\ provLast.kind = "zoom" /\ provLast.updated
  /\ props.maxZoom # NULL /\ props.zoom = props.maxZoom[1]

(* --------------------- catalog published by the provider -------------- *)
\* C28: with a fixed metadataSource, props.stars never loses a star number
\* it has once held, whatever the order in which overlapping calls resolve
C28_PublishedNeverShrinks == everPublished \subseteq DOMAIN propsStars

(* ------------------------------ star size ----------------------------- *)
(* Sizes are in thousandths.  Math.pow with a whole exponent is repeated   *)
(* multiplication, each product cut to thousandths.                        *)
SizeFrame == UNCHANGED <<loaderVars, effectVars, observerVars, providerVars,
                         hookVars, hitVars,
    pathVars,
    refVars,
    gridVars,
    inputVars>>

OBS_THRES_VMAG == 5
OBS_SIZE_MIN == 3000
\* Math.sqrt(2.5118864315)
OBS_SIZE_RATIO == 1585

SizeVmags == (0 - MaxBright)..MaxFaint

RECURSIVE pow(_, _)
pow(base, n) ==
  IF n = 0 THEN 1000 ELSE (pow(base, n - 1) * base) \div 1000

\* a size without the minimum
getStarSize_NoFloor(star) ==
  IF star.vMag < OBS_THRES_VMAG
  THEN pow(OBS_SIZE_RATIO, OBS_THRES_VMAG - star.vMag)
  ELSE OBS_SIZE_MIN

getStarSize(star) ==
  IF star.vMag < OBS_THRES_VMAG
  THEN Max(OBS_SIZE_MIN, pow(OBS_SIZE_RATIO, OBS_THRES_VMAG - star.vMag))
  ELSE OBS_SIZE_MIN

\* the size of a star of magnitude v is computed
MeasureSize(v) ==
  /\ v \notin DOMAIN sizes
  /\ sizes' = (v :> getStarSize([vMag |-> v])) @@ sizes
  /\ SizeFrame

\* the sizes are dropped with the stars they were computed for
DropSizes ==
  /\ sizes # <<>>
  /\ sizes' = <<>>
  /\ SizeFrame

SizeNext ==
  \/ \E v \in SizeVmags : MeasureSize(v)
  \/ DropSizes

SpecSize == Init /\ [][SizeNext]_vars

\* C24: getStarSize is never below 3.0, is 3.0 for every vMag >= 5.0, and
\* does not grow with vMag
C24_SizeMonotone ==
  \A v1 \in DOMAIN sizes :
    /\ sizes[v1] >= OBS_SIZE_MIN
    /\ v1 >= OBS_THRES_VMAG => sizes[v1] = OBS_SIZE_MIN
    /\ \A v2 \in DOMAIN sizes : v1 < v2 => sizes[v1] >= sizes[v2]

\* sizes above the minimum, at the minimum below the threshold, and past it
C24_Witness ==
  /\ {1, 2, 3, 6} \subseteq DOMAIN sizes
  /\ sizes[1] > sizes[2] /\ sizes[2] > sizes[3] /\ sizes[3] = sizes[6]

(* --------------------------- band addresses --------------------------- *)
(* A string is the sequence of its characters.                             *)
PathFrame == UNCHANGED <<loaderVars, effectVars, observerVars, providerVars,
                         hookVars, hitVars, sizeVars,
    refVars,
    gridVars,
    inputVars>>

PathChars == {"a", "b", "/"}
RECURSIVE StringsUpTo(_)
StringsUpTo(n) ==
  IF n = 0 THEN {<<>>}
  ELSE LET shorter == StringsUpTo(n - 1)
       IN  shorter \cup {Append(t, c) : t \in shorter, c \in PathChars}

\* metadata sources and relative band files
PathSources == StringsUpTo(MaxPathLen)
PathFiles == {<<"f">>, <<"g">>, <<"d", "/", "f">>}

\* String.prototype.lastIndexOf(ch), counting from 0; -1 if ch is absent
lastIndexOf(str, ch) ==
  LET at == {i \in 1..Len(str) : str[i] = ch}
  IN  IF at = {} THEN 0 - 1
      ELSE (CHOOSE i \in at : \A j \in at : j <= i) - 1

\* String.prototype.slice(0, end): a negative end counts from the end
slice0(str, end) ==
  LET to == IF end < 0 THEN Max(Len(str) + end, 0) ELSE Min(end, Len(str))
  IN  SubSeq(str, 1, to)

meta_host(source) == slice0(source, lastIndexOf(source, "/"))

\* the address given to fetch
StarAddress(source, file) == meta_host(source) \o <<"/">> \o file

\* fetchStar is called for a band file of the metadata from source
FetchBand(source, file) ==
  /\ bandFetch = NULL
  /\ bandFetch' = <<[source |-> source, file |-> file,
                     address |-> StarAddress(source, file)]>>
  /\ PathFrame

\* the response has arrived
BandFetched ==
  /\ bandFetch # NULL
  /\ bandFetch' = NULL
  /\ PathFrame

PathNext ==
  \/ \E source \in PathSources, file \in PathFiles : FetchBand(source, file)
  \/ BandFetched

SpecPath == Init /\ [][PathNext]_vars

\* the source without its last path component and the '/' before it
RECURSIVE Directory(_)
Directory(source) ==
  IF source = <<>> THEN <<>>
  ELSE IF source[Len(source)] = "/" THEN SubSeq(source, 1, Len(source) - 1)
  ELSE Directory(SubSeq(source, 1, Len(source) - 1))

\* C22: for every source string, with or without a '/', a band file is
\* fetched from the directory of the source, then '/', then the file
C22_BandFromSourceDirectory ==
  bandFetch # NULL =>
    bandFetch[1].address
      = Directory(bandFetch[1].source) \o <<"/">> \o bandFetch[1].file

(* ------------------------- animation references ----------------------- *)
RefFrame == UNCHANGED <<loaderVars, effectVars, observerVars, providerVars,
                        hookVars, hitVars, sizeVars, pathVars,
    gridVars,
    inputVars>>

\* the values of a numeric parameter such as fov or zoom
RefValues == 0..MaxParam

\* the element is mounted: React sets the ref
AttachRef ==
  /\ refObj = NULL
  /\ refObj' = <<"camera">>
  /\ UNCHANGED <<refParam, refLast>>
  /\ RefFrame

\* the element is unmounted: React clears the ref
DetachRef ==
  /\ refObj # NULL
  /\ refObj' = NULL
  /\ UNCHANGED <<refParam, refLast>>
  /\ RefFrame

\* setAnimationRefs(objRef, paramRef, value, valueSetter)
CallSetAnimationRefs(value) ==
  LET r == setAnimationRefs(refObj # NULL, refParam, value)
  IN  /\ refParam' = r.param
      /\ refLast' = <<[obj |-> refObj, before |-> refParam, value |-> value,
                       setter |-> IF r.set
                                  THEN <<[obj |-> refObj[1], param |-> value]>>
                                  ELSE <<>>]>>
      /\ <<refParam', refLast'>> # <<refParam, refLast>>
      /\ UNCHANGED refObj
      /\ RefFrame

RefNext ==
  \/ AttachRef
  \/ DetachRef
  \/ \E value \in RefValues : CallSetAnimationRefs(value)

SpecRefs == Init /\ [][RefNext]_vars

\* C21: with an empty objRef the call sets paramRef to null and does not
\* call the setter; with an object it sets paramRef to the value and calls
\* the setter, once with the object and the value, exactly when paramRef
\* was null before the call
C21_SetterOnlyFromNull ==
  refLast # NULL =>
    LET call == refLast[1]
    IN  IF call.obj = NULL
        THEN refParam = NULL /\ call.setter = <<>>
        ELSE /\ refParam = <<call.value>>
             /\ call.setter = IF call.before = NULL
                              THEN <<[obj |-> call.obj[1], param |-> call.value]>>
                              ELSE <<>>

(* ---------------------- horizon frame orientation --------------------- *)
(* Angles are in units of 15 degrees and are multiples of 90 degrees, so    *)
(* that the sines of the half angles are numbers (a + b*sqrt(2))/2.         *)
GridFrame == UNCHANGED <<loaderVars, effectVars, observerVars, providerVars,
                         hookVars, hitVars, sizeVars, pathVars, refVars,
    inputVars>>

\* the Greenwich apparent sidereal time of the clock, a latitude, a longitude
Gasts == {6 * k : k \in 0..MaxGastTurns}
Latitudes == {0 - 6, 0, 6}
Longitudes == {6 * k : k \in (0 - MaxLongTurns)..MaxLongTurns}

Neg(x) == <<0 - x[1], 0 - x[2]>>
Sum4(a, b, c, d) == Add(Add(a, b), Add(c, d))

\* new Quaternion()
Identity == [x |-> <<0, 0>>, y |-> <<0, 0>>, z |-> <<0, 0>>, w |-> <<2, 0>>]

\* Quaternion.setFromAxisAngle on a unit axis
quaternionFromAxisAngle(vec, angle) ==
  LET s == sin(angle \div 2)
      c == cos(angle \div 2)
      o == <<0, 0>>
  IN  [x |-> IF vec = "X" THEN s ELSE o,
       y |-> IF vec = "Y" THEN s ELSE o,
       z |-> IF vec = "Z" THEN s ELSE o,
       w |-> c]

\* Quaternion.multiply: a * b
multiply(a, b) ==
  [x |-> Sum4(Mul(a.x, b.w), Mul(a.w, b.x), Mul(a.y, b.z), Neg(Mul(a.z, b.y))),
   y |-> Sum4(Mul(a.y, b.w), Mul(a.w, b.y), Mul(a.z, b.x), Neg(Mul(a.x, b.z))),
   z |-> Sum4(Mul(a.z, b.w), Mul(a.w, b.z), Mul(a.x, b.y), Neg(Mul(a.y, b.x))),
   w |-> Sum4(Mul(a.w, b.w), Neg(Mul(a.x, b.x)), Neg(Mul(a.y, b.y)),
              Neg(Mul(a.z, b.z)))]

\* four times the square of (a + b*sqrt(2))/2, as <<whole, sqrt(2) part>>
Square4(x) == <<x[1] * x[1] + 2 * x[2] * x[2], 2 * x[1] * x[2]>>

\* Quaternion.normalize: a quaternion of length 1 is left as it is
normalize(q) ==
  CASE Sum4(Square4(q.x), Square4(q.y), Square4(q.z), Square4(q.w))
         = <<4, 0>> -> q

\* the first two rotations of getCameraQuaternionFromAzAlt
CameraHorizon(gast, latitude, longitude) ==
  normalize(multiply(multiply(Identity,
    quaternionFromAxisAngle("Z", gast + (longitude - 6))),
    quaternionFromAxisAngle("X", latitude + 6)))

getAzimuthalQuaternion(gast, latitude, longitude) ==
  normalize(multiply(multiply(Identity,
    quaternionFromAxisAngle("Z", gast + (longitude - 6))),
    quaternionFromAxisAngle("X", latitude + 6)))

getDirectionLabelQuaternion(gast, latitude, longitude) ==
  normalize(multiply(multiply(Identity,
    quaternionFromAxisAngle("Z", gast + longitude - 6)),
    quaternionFromAxisAngle("X", latitude)))

\* one frame: the grid and the labels copy their quaternions
HorizonFrame(gast, latitude, longitude) ==
  /\ horizon = NULL
  /\ horizon' =
       <<[gast |-> gast, latitude |-> latitude, longitude |-> longitude,
          camera |-> CameraHorizon(gast, latitude, longitude),
          grid |-> getAzimuthalQuaternion(gast, latitude, longitude),
          labels |-> getDirectionLabelQuaternion(gast, latitude, longitude)]>>
  /\ GridFrame

\* the frame has been drawn
HorizonDrawn ==
  /\ horizon # NULL
  /\ horizon' = NULL
  /\ GridFrame

GridNext ==
  \/ \E gast \in Gasts, latitude \in Latitudes, longitude \in Longitudes :
       HorizonFrame(gast, latitude, longitude)
  \/ HorizonDrawn

SpecGrid == Init /\ [][GridNext]_vars

\* C23: for equal clock, latitude and longitude the azimuthal grid and the
\* direction labels get the same quaternion, the first two rotations of the
\* camera's Az/Alt orientation
C23_GridAndLabelsShareHorizon ==
  horizon # NULL =>
    /\ horizon[1].grid = horizon[1].camera
    /\ horizon[1].labels = horizon[1].camera

(* ------------------------------ Interactor ---------------------------- *)
(* onSelect, onMove and onZoom are given; an event is emitted when its      *)
(* handler is called.                                                       *)
InputFrame == UNCHANGED <<loaderVars, effectVars, observerVars, providerVars,
                          hookVars, hitVars, sizeVars, pathVars, refVars,
                          gridVars>>

\* the buttons of the mouse, as the bits of ev.buttons
Buttons == {1, 2, 4}
\* reactiveButtons = 1
ReactiveButtons == {1}
\* points of the canvas, and distances of two fingers
Positions == 0..MaxPos
PinchDists == 0..MaxPinch

\* (ev.buttons & reactiveButtons) != 0
Reactive(bits) == bits \cap ReactiveButtons # {}

\* a release selects although the pointer was dragged
clickFires_Dragged(pos, drag) == pos # NULL

\* lastPos.current && !dragging.current
clickFires(pos, drag) == pos # NULL /\ ~drag

\* a button goes down on the canvas
MouseDown(b, x) ==
  /\ fingers = 0
  /\ b \notin buttons
  /\ buttons' = buttons \cup {b}
  /\ IF Reactive(buttons')
     THEN /\ lastPos' = <<x>>
          /\ dragging' = FALSE
          /\ downSeen' = TRUE
          /\ moveSeen' = FALSE
          /\ emittedSince' = FALSE
     ELSE UNCHANGED <<lastPos, dragging, downSeen, moveSeen, emittedSince>>
  /\ inputLast' = [event |-> "mousedown", emitted |-> "none"]
  /\ UNCHANGED <<fingers, pinchDist>>
  /\ InputFrame

\* the pointer moves over the canvas
MouseMove(x) ==
  /\ fingers = 0
  /\ IF Reactive(buttons)
     THEN /\ moveSeen' = TRUE
          /\ IF lastPos # NULL
             THEN /\ dragging' = TRUE
                  /\ lastPos' = <<x>>
                  /\ inputLast' = [event |-> "mousemove", emitted |-> "move"]
                  /\ emittedSince' = TRUE
             ELSE /\ inputLast' = [event |-> "mousemove", emitted |-> "none"]
                  /\ UNCHANGED <<lastPos, dragging, emittedSince>>
     ELSE /\ inputLast' = [event |-> "mousemove", emitted |-> "none"]
          /\ UNCHANGED <<lastPos, dragging, moveSeen, emittedSince>>
  /\ <<lastPos', dragging', inputLast', moveSeen'>>
       # <<lastPos, dragging, inputLast, moveSeen>>
  /\ UNCHANGED <<buttons, fingers, pinchDist, downSeen>>
  /\ InputFrame

\* a button is released over the canvas
MouseUp(b) ==
  /\ fingers = 0
  /\ b \in buttons
  /\ buttons' = buttons \ {b}
  /\ inputLast' = [event |-> "mouseup",
                   emitted |-> IF clickFires(lastPos, dragging)
                               THEN "select" ELSE "none"]
  /\ lastPos' = NULL
  /\ downSeen' = FALSE
  /\ UNCHANGED <<fingers, dragging, pinchDist, moveSeen, emittedSince>>
  /\ InputFrame

\* the wheel turns
Wheel ==
  /\ fingers = 0
  /\ inputLast' = [event |-> "wheel", emitted |-> "zoom"]
  /\ inputLast' # inputLast
  /\ UNCHANGED <<buttons, fingers, lastPos, dragging, pinchDist, downSeen,
                 moveSeen, emittedSince>>
  /\ InputFrame

MouseNext ==
  \/ \E b \in Buttons, x \in Positions : MouseDown(b, x)
  \/ \E x \in Positions : MouseMove(x)
  \/ \E b \in Buttons : MouseUp(b)
  \/ Wheel

SpecMouse == Init /\ [][MouseNext]_vars

\* one more finger touches the canvas; x is the touch getNearestLocalPoint
\* picks
TouchStart(x) ==
  /\ buttons = {}
  /\ fingers < MaxFingers
  /\ fingers' = fingers + 1
  /\ lastPos' = <<x>>
  /\ dragging' = FALSE
  /\ emittedSince' = IF fingers = 0 THEN FALSE ELSE emittedSince
  /\ inputLast' = [event |-> "touchstart", emitted |-> "none"]
  /\ UNCHANGED <<buttons, pinchDist, downSeen, moveSeen>>
  /\ InputFrame

\* fingers move; x is the touch picked, d the distance of the first two
TouchMove(x, d) ==
  /\ buttons = {}
  /\ fingers > 0
  /\ lastPos # NULL
  /\ dragging' = TRUE
  /\ lastPos' = <<x>>
  /\ IF fingers = 1
     THEN /\ inputLast' = [event |-> "touchmove", emitted |-> "move"]
          /\ pinchDist' = NULL
          /\ emittedSince' = TRUE
     ELSE /\ inputLast' = [event |-> "touchmove",
                           emitted |-> IF Truthy(pinchDist)
                                       THEN "zoom" ELSE "none"]
          /\ pinchDist' = <<d>>
          /\ emittedSince' = (emittedSince \/ Truthy(pinchDist))
  /\ fingers = 1 => d = 0
  /\ <<lastPos', dragging', pinchDist', inputLast'>>
       # <<lastPos, dragging, pinchDist, inputLast>>
  /\ UNCHANGED <<buttons, fingers, downSeen, moveSeen>>
  /\ InputFrame

\* one finger is lifted
TouchEnd ==
  /\ buttons = {}
  /\ fingers > 0
  /\ fingers' = fingers - 1
  /\ IF fingers' < 1
     THEN /\ inputLast' = [event |-> "touchend",
                           emitted |-> IF clickFires(lastPos, dragging)
                                       THEN "select" ELSE "none"]
          /\ lastPos' = NULL
     ELSE /\ inputLast' = [event |-> "touchend", emitted |-> "none"]
          /\ UNCHANGED lastPos
  /\ pinchDist' = IF fingers' < 2 THEN NULL ELSE pinchDist
  /\ UNCHANGED <<buttons, dragging, downSeen, moveSeen, emittedSince>>
  /\ InputFrame

TouchNext ==
  \/ \E x \in Positions : TouchStart(x)
  \/ \E x \in Positions, d \in PinchDists : TouchMove(x, d)
  \/ TouchEnd

SpecTouch == Init /\ [][TouchNext]_vars

C26_Step ==
  inputLast'.event = "mouseup" /\ buttons' # buttons =>
    /\ inputLast'.emitted = "select" <=> (downSeen /\ ~moveSeen)
    /\ emittedSince => inputLast'.emitted # "select"
    /\ lastPos' = NULL

C27_Step ==
  inputLast'.event = "touchend" /\ fingers' = 0 /\ fingers = 1 =>
    (emittedSince => inputLast'.emitted # "select")

\* C27: within one touch gesture, from the first finger touching until all
\* fingers are lifted, no select event is emitted when the last finger is
\* lifted if a move or zoom event was emitted in the gesture
C27_NoTapAfterSwipe == [][C27_Step]_vars

(* --------------------------- repeated calls --------------------------- *)
\* the bands of the source cover v without a gap: v lies between the lowest
\* lower bound and the highest upper bound, and every upper bound but the
\* highest is the lower bound of a band
Contiguous(url, v) ==
  LET fs == RawFiles(url)
      bands == {fs[i] : i \in 1..Len(fs)}
  IN  /\ \E f \in bands : f[1] <= v
      /\ \E f \in bands : v <= f[2]
      /\ \A f \in bands :
           (\E g \in bands : g[2] > f[2]) => \E g \in bands : g[1] = f[2]

\* the caller holds the state the last call resolved with, fetched for vmag
ResolvedFor ==
  /\ pc = "idle"
  /\ held = last
  /\ held.step.value = "OK"
  /\ held.step.meta.source = metadataSource

C29_Step ==
  (ResolvedFor /\ pc' # "idle" /\ metadataSource' = metadataSource
     /\ vmag' = vmag /\ Contiguous(metadataSource, vmag)) =>
    (pc' = "resolved" /\ state' = held /\ attempts' = 0 /\ notified' = 0)

\* C29: after a call has resolved for a vmag within the range covered by
\* contiguous bands, the same call repeated at once on the returned state
\* makes no fetch and returns that state, also when vmag is the upper bound
\* of a band
C29_RepeatedCallIsNoOp == [][C29_Step]_vars

(* --------------------------- failure counter -------------------------- *)
\* the fetches of the call that have failed: those started, less those that
\* succeeded and the one in flight
Failed == attempts - succeeded - (IF pc \in {"meta", "star"} THEN 1 ELSE 0)

\* C30: the failure counter of a call counts the failed metadata and band
\* fetches together, is not reset by a success and starts at 0 in every
\* call: a call goes on while at most retryCount fetches have failed and
\* moves to Fail at failure retryCount + 1, whatever succeeded between
C30_SharedFailureCounter ==
  pc # "idle" =>
    /\ failureCount = Failed
    /\ pc # "rejected" => failureCount <= retryCount
    /\ pc = "rejected" =>
         (failureCount = retryCount + 1 /\ state.step.value = "FAIL")

C30_Witness ==
  /\ pc = "rejected" /\ retryCount = MaxRetry /\ failureCount = MaxRetry + 1
  /\ succeeded >= 2 /\ state.stars # <<>> /\ held # initialState

=============================================================================
